---- MODULE Spec2Model ----
(***************************************************************************)
(* A model of main.py: the literature-review pipeline.                     *)
(*                                                                         *)
(*   Spec      - one run of main(): folder lookup, listing, the pool of    *)
(*               process_pdf tasks, the as_completed collector, the        *)
(*               synthesis call, the paper list and the file write.        *)
(*   SpecOrder - the same run, with the order in which the futures finish  *)
(*               recorded in the history variable finish_order.            *)
(*   SpecRetry - one invocation of a function under                        *)
(*               @retry(stop=stop_after_attempt(3), ...).                  *)
(*   SpecClean - clean_text on bounded input strings.                      *)
(*   SpecCite  - create_apa_citation on bounded summaries.                 *)
(*                                                                         *)
(* Strings are sequences of one-character strings; clean_text works on     *)
(* sequences of code points.                                               *)
(***************************************************************************)
EXTENDS Integers, Sequences, FiniteSets, TLC

VARIABLES
    \* ---- main() ----
    pc,              \* position of the main thread / terminal state of the run
    dir_exists,      \* os.path.isdir(pdf_folder)
    dir_listing,     \* os.listdir(pdf_folder)
    pdf_files,       \* main: pdf_files
    submitted,       \* number of futures created by executor.submit so far
    task,            \* per future: state of its process_pdf task
    record_order,    \* whether finish_order is recorded in this run (SpecOrder)
    finish_order,    \* history: futures in the order in which they finished
    early,           \* as_completed: futures already finished when it started
    waiter_q,        \* as_completed: waiter.finished_futures, in finishing order
    yielded,         \* futures as_completed has yielded so far
    summaries,       \* main: summaries (a summary is named by its future)
    synth_attempts,  \* attempts synthesize_reviews has made
    synth_input,     \* the list synthesize_reviews was called with
    literature_review, \* main: literature_review ("none" until returned)
    paper_list,      \* main: paper_list (the bullet entries)
    files_written,   \* number of output documents written
    error,           \* the exception main()'s handlers caught ("none" if none)
    \* ---- one retried invocation ----
    r_pc, r_site, r_attempt, r_outcomes, r_result,
    \* ---- clean_text ----
    c_pc, c_text, c_out,
    \* ---- create_apa_citation ----
    a_pc, a_summary, a_authors, a_title, a_citation

mainVars == <<pc, record_order, dir_exists, dir_listing, pdf_files, submitted, task,
              finish_order, early, waiter_q, yielded, summaries, synth_attempts,
              synth_input, literature_review, paper_list, files_written, error>>
retryVars == <<r_pc, r_site, r_attempt, r_outcomes, r_result>>
cleanVars == <<c_pc, c_text, c_out>>
citeVars == <<a_pc, a_summary, a_authors, a_title, a_citation>>
vars == <<mainVars, retryVars, cleanVars, citeVars>>
notMain == <<retryVars, cleanVars, citeVars>>
notRetry == <<mainVars, cleanVars, citeVars>>
notClean == <<mainVars, retryVars, citeVars>>
notCite == <<mainVars, retryVars, cleanVars>>

\* ------------------------------------------------------------------ bounds

\* The most '.pdf' files the PDF folder holds (Spec).
MaxFiles == 5

\* The most '.pdf' files the PDF folder holds when the finishing order is
\* recorded (SpecOrder).
OrderFiles == 3

\* ThreadPoolExecutor(max_workers=4)
max_workers == 4

\* stop_after_attempt(3)
stop_after_attempt == 3

\* ----------------------------------------------------------------- helpers

RECURSIVE JoinWith(_, _)
\* sep.join(seq of strings)
JoinWith(sep, ss) ==
    IF ss = <<>> THEN <<>>
    ELSE IF Len(ss) = 1 THEN ss[1]
    ELSE ss[1] \o sep \o JoinWith(sep, Tail(ss))

\* s.endswith(suf)
EndsWith(s, suf) ==
    /\ Len(s) >= Len(suf)
    /\ SubSeq(s, Len(s) - Len(suf) + 1, Len(s)) = suf

\* ------------------------------------------------------------- main(): data

DigitChar == <<"1", "2", "3", "4", "5", "6", "7", "8", "9">>

\* The name of the i-th paper in the folder: "p<i>.pdf".
PdfName(i) == <<"p", DigitChar[i], ".", "p", "d", "f">>

\* Entries of the folder that are not papers: "notes.txt", "scan.PDF", "pdf".
NotesTxt == <<"n", "o", "t", "e", "s", ".", "t", "x", "t">>
ScanPDF == <<"s", "c", "a", "n", ".", "P", "D", "F">>
NoDot == <<"p", "d", "f">>

\* The folder contents considered: the empty folder, and k <= n papers among
\* entries that are not papers.
Listings(n) ==
    {<<>>} \cup { <<ScanPDF>> \o [i \in 1..k |-> PdfName(i)] \o <<NotesTxt, NoDot>> :
                  k \in 0..n }

\* Mutant of IsPdf: the suffix tested without its dot.
IsPdfNoDot(f) == EndsWith(f, <<"p", "d", "f">>)

\* main: f.endswith('.pdf')
IsPdf(f) == EndsWith(f, <<".", "p", "d", "f">>)

Futures == 1..Len(pdf_files)

Running == {t \in Futures : task[t] \in {"extracting", "analyzing"}}
Done == {t \in Futures : task[t] \in {"ok", "failed"}}

\* Mutant of WorkerAvailable: a pool that starts a thread per work item.
WorkerAlwaysAvailable == TRUE

\* ThreadPoolExecutor: a work item is taken only by one of max_workers threads.
WorkerAvailable == Cardinality(Running) < max_workers

\* The work queue is FIFO: the next item is the oldest queued future.
NextQueued(t) ==
    /\ task[t] = "queued"
    /\ \A u \in Futures : u < t => task[u] # "queued"

\* Mutant of StopAfterAttempt: one attempt more before stopping.
StopAfterAttemptLate(n) == n > stop_after_attempt

\* tenacity: the stop condition, evaluated after a failed attempt.
StopAfterAttempt(n) == n >= stop_after_attempt

MainInit(record, n) ==
    /\ pc = "find_pdf_folder"
    /\ record_order = record
    /\ dir_exists \in BOOLEAN
    /\ dir_listing \in Listings(n)
    /\ pdf_files = <<>>
    /\ submitted = 0
    /\ task = <<>>
    /\ finish_order = <<>>
    /\ early = {}
    /\ waiter_q = <<>>
    /\ yielded = {}
    /\ summaries = <<>>
    /\ synth_attempts = 0
    /\ synth_input = <<>>
    /\ literature_review = "none"
    /\ paper_list = <<>>
    /\ files_written = 0
    /\ error = "none"

MainIdle ==
    /\ pc = "idle"
    /\ record_order = FALSE
    /\ dir_exists = FALSE
    /\ dir_listing = <<>>
    /\ pdf_files = <<>>
    /\ submitted = 0
    /\ task = <<>>
    /\ finish_order = <<>>
    /\ early = {}
    /\ waiter_q = <<>>
    /\ yielded = {}
    /\ summaries = <<>>
    /\ synth_attempts = 0
    /\ synth_input = <<>>
    /\ literature_review = "none"
    /\ paper_list = <<>>
    /\ files_written = 0
    /\ error = "none"

RetryIdle ==
    /\ r_pc = "idle" /\ r_site = "none" /\ r_attempt = 0
    /\ r_outcomes = <<>> /\ r_result = "none"

CleanIdle == c_pc = "idle" /\ c_text = <<>> /\ c_out = <<>>

CiteIdle ==
    /\ a_pc = "idle" /\ a_summary = <<>> /\ a_authors = <<>>
    /\ a_title = <<>> /\ a_citation = <<>>

\* ---------------------------------------------------------- main(): actions

\* find_pdf_folder returns the folder.
FindPdfFolder ==
    /\ pc = "find_pdf_folder"
    /\ dir_exists
    /\ pc' = "listdir"
    /\ UNCHANGED notMain
    /\ UNCHANGED <<record_order, dir_exists, dir_listing, pdf_files, submitted, task,
                   finish_order, early, waiter_q, yielded, summaries,
                   synth_attempts, synth_input, literature_review, paper_list,
                   files_written, error>>

\* find_pdf_folder raises FileNotFoundError; main logs it and returns.
FindPdfFolderMissing ==
    /\ pc = "find_pdf_folder"
    /\ ~dir_exists
    /\ pc' = "FailedUnexpected"
    /\ error' = "FileNotFoundError"
    /\ UNCHANGED notMain
    /\ UNCHANGED <<record_order, dir_exists, dir_listing, pdf_files, submitted, task,
                   finish_order, early, waiter_q, yielded, summaries,
                   synth_attempts, synth_input, literature_review, paper_list,
                   files_written>>

\* pdf_files = [f for f in os.listdir(pdf_folder) if f.endswith('.pdf')];
\* if not pdf_files: return.
ListPdfFiles ==
    /\ pc = "listdir"
    /\ LET found == SelectSeq(dir_listing, IsPdf) IN
        /\ pdf_files' = found
        /\ task' = [i \in 1..Len(found) |-> "unsubmitted"]
        /\ pc' = IF found = <<>> THEN "FailedNoInput" ELSE "submit"
    /\ UNCHANGED notMain
    /\ UNCHANGED <<record_order, dir_exists, dir_listing, submitted, finish_order, early,
                   waiter_q, yielded, summaries, synth_attempts, synth_input,
                   literature_review, paper_list, files_written, error>>

\* futures = [executor.submit(process_pdf, ...) for pdf in pdf_files]: one
\* submit; after the last one the main thread calls as_completed.
Submit ==
    /\ pc = "submit"
    /\ submitted < Len(pdf_files)
    /\ submitted' = submitted + 1
    /\ task' = [task EXCEPT ![submitted + 1] = "queued"]
    /\ pc' = IF submitted + 1 = Len(pdf_files) THEN "as_completed" ELSE "submit"
    /\ UNCHANGED notMain
    /\ UNCHANGED <<record_order, dir_exists, dir_listing, pdf_files, finish_order,
                   early, waiter_q, yielded, summaries, synth_attempts,
                   synth_input, literature_review, paper_list, files_written,
                   error>>

\* A future finishes (set_result / set_exception): it is recorded in finishing
\* order, and handed to as_completed's waiter when that is installed.
Finish(t, state) ==
    /\ task' = [task EXCEPT ![t] = state]
    /\ finish_order' = IF record_order THEN Append(finish_order, t) ELSE finish_order
    /\ waiter_q' = IF pc = "collect" THEN Append(waiter_q, t) ELSE waiter_q

\* A pool thread takes the next work item and enters process_pdf.
StartTask(t) ==
    /\ NextQueued(t)
    /\ WorkerAvailable
    /\ task' = [task EXCEPT ![t] = "extracting"]
    /\ UNCHANGED notMain
    /\ UNCHANGED <<pc, record_order, dir_exists, dir_listing, pdf_files, submitted,
                   finish_order, early, waiter_q, yielded, summaries,
                   synth_attempts, synth_input, literature_review, paper_list,
                   files_written, error>>

\* extract_text_from_pdf returns the cleaned text.
ExtractText(t) ==
    /\ task[t] = "extracting"
    /\ task' = [task EXCEPT ![t] = "analyzing"]
    /\ UNCHANGED notMain
    /\ UNCHANGED <<pc, record_order, dir_exists, dir_listing, pdf_files, submitted,
                   finish_order, early, waiter_q, yielded, summaries,
                   synth_attempts, synth_input, literature_review, paper_list,
                   files_written, error>>

\* extract_text_from_pdf logs and re-raises: process_pdf raises, the future
\* holds the exception.
ExtractTextFails(t) ==
    /\ task[t] = "extracting"
    /\ Finish(t, "failed")
    /\ UNCHANGED notMain
    /\ UNCHANGED <<pc, record_order, dir_exists, dir_listing, pdf_files, submitted,
                   early, yielded, summaries, synth_attempts, synth_input,
                   literature_review, paper_list, files_written, error>>

\* analyze_pdf returns a PaperSummary (within its attempts, see SpecRetry; the
\* attempts touch nothing the other threads read): process_pdf returns it.
AnalyzePdf(t) ==
    /\ task[t] = "analyzing"
    /\ Finish(t, "ok")
    /\ UNCHANGED notMain
    /\ UNCHANGED <<pc, record_order, dir_exists, dir_listing, pdf_files, submitted, early,
                   yielded, summaries, synth_attempts, synth_input,
                   literature_review, paper_list, files_written, error>>

\* analyze_pdf raises RetryError after its last attempt: process_pdf raises,
\* the future holds the exception.
AnalyzePdfFails(t) ==
    /\ task[t] = "analyzing"
    /\ Finish(t, "failed")
    /\ UNCHANGED notMain
    /\ UNCHANGED <<pc, record_order, dir_exists, dir_listing, pdf_files, submitted, early,
                   yielded, summaries, synth_attempts, synth_input,
                   literature_review, paper_list, files_written, error>>

\* as_completed(futures) starts: the futures already finished are set aside
\* (a set), the waiter is installed on all of them.
\* (The history records the moment as the entry 0.)
AsCompletedStart ==
    /\ pc = "as_completed"
    /\ early' = Done
    /\ pc' = "collect"
    /\ finish_order' = IF record_order THEN Append(finish_order, 0) ELSE finish_order
    /\ UNCHANGED notMain
    /\ UNCHANGED <<record_order, dir_exists, dir_listing, pdf_files, submitted, task,
                   waiter_q, yielded, summaries, synth_attempts,
                   synth_input, literature_review, paper_list, files_written,
                   error>>

\* Mutant of YieldsNext: the futures are waited for in submission order
\* (for future in futures).
YieldsInSubmissionOrder(t) ==
    /\ t \in Done \ yielded
    /\ \A u \in Futures : u < t => u \in yielded

\* The future as_completed yields next: any of those finished before it
\* started (iteration over a set), then the waiter's in finishing order.
YieldsNext(t) ==
    IF early # {} THEN t \in early
    ELSE waiter_q # <<>> /\ t = Head(waiter_q)

\* _yield_finished_futures: the future leaves the collection it was taken from.
Yield(t) ==
    /\ yielded' = yielded \cup {t}
    /\ early' = early \ {t}
    /\ waiter_q' = SelectSeq(waiter_q, LAMBDA u : u # t)

\* summary = future.result(); summaries.append(summary)
CollectSummary(t) ==
    /\ pc = "collect"
    /\ YieldsNext(t)
    /\ task[t] = "ok"
    /\ Yield(t)
    /\ summaries' = Append(summaries, t)
    /\ UNCHANGED notMain
    /\ UNCHANGED <<pc, record_order, dir_exists, dir_listing, pdf_files, submitted, task,
                   finish_order, synth_attempts, synth_input,
                   literature_review, paper_list, files_written, error>>

\* Mutant of CollectFailure: the exception of future.result() leaves the loop
\* and reaches main's except Exception.
CollectFailureAborts(t) ==
    /\ pc = "collect"
    /\ YieldsNext(t)
    /\ task[t] = "failed"
    /\ Yield(t)
    /\ pc' = "FailedUnexpected"
    /\ error' = "Exception"
    /\ UNCHANGED notMain
    /\ UNCHANGED <<record_order, dir_exists, dir_listing, pdf_files, submitted, task,
                   finish_order, summaries, synth_attempts,
                   synth_input, literature_review, paper_list, files_written>>

\* future.result() raises: except Exception, logged, the loop goes on.
CollectFailure(t) ==
    /\ pc = "collect"
    /\ YieldsNext(t)
    /\ task[t] = "failed"
    /\ Yield(t)
    /\ UNCHANGED notMain
    /\ UNCHANGED <<pc, record_order, dir_exists, dir_listing, pdf_files, submitted, task,
                   finish_order, summaries, synth_attempts,
                   synth_input, literature_review, paper_list, files_written,
                   error>>

\* as_completed is exhausted: every future has been yielded.
AllYielded == yielded = Futures

\* The loop and the with block end (shutdown(wait=True)).
ExitPool ==
    /\ pc = "collect"
    /\ AllYielded
    /\ pc' = "check_summaries"
    /\ UNCHANGED notMain
    /\ UNCHANGED <<record_order, dir_exists, dir_listing, pdf_files, submitted, task,
                   finish_order, early, waiter_q, yielded, summaries,
                   synth_attempts, synth_input, literature_review, paper_list,
                   files_written, error>>

\* Mutant of CheckSummaries: no test of the list before the synthesis.
CheckSummariesUnguarded ==
    /\ pc = "check_summaries"
    /\ pc' = "synthesize"
    /\ synth_input' = summaries
    /\ UNCHANGED notMain
    /\ UNCHANGED <<record_order, dir_exists, dir_listing, pdf_files, submitted, task,
                   finish_order, early, waiter_q, yielded, summaries,
                   synth_attempts, literature_review, paper_list, files_written,
                   error>>

\* if not summaries: return; else synthesize_reviews(summaries) is called.
CheckSummaries ==
    /\ pc = "check_summaries"
    /\ IF summaries = <<>>
       THEN pc' = "FailedNoOutput" /\ UNCHANGED synth_input
       ELSE pc' = "synthesize" /\ synth_input' = summaries
    /\ UNCHANGED notMain
    /\ UNCHANGED <<record_order, dir_exists, dir_listing, pdf_files, submitted, task,
                   finish_order, early, waiter_q, yielded, summaries,
                   synth_attempts, literature_review, paper_list, files_written,
                   error>>

\* One attempt of synthesize_reviews (one LLM call) that returns the review.
SynthAttempt ==
    /\ pc = "synthesize"
    /\ synth_attempts' = synth_attempts + 1
    /\ literature_review' = "review"
    /\ pc' = "create_paper_list"
    /\ UNCHANGED notMain
    /\ UNCHANGED <<record_order, dir_exists, dir_listing, pdf_files, submitted, task,
                   finish_order, early, waiter_q, yielded, summaries,
                   synth_input, paper_list, files_written, error>>

\* Mutant of SynthAttemptFails: after the last attempt the run goes on without
\* a review.
SynthAttemptFailsGoesOn ==
    /\ pc = "synthesize"
    /\ synth_attempts' = synth_attempts + 1
    /\ pc' = IF StopAfterAttempt(synth_attempts + 1)
             THEN "create_paper_list" ELSE "synthesize"
    /\ UNCHANGED notMain
    /\ UNCHANGED <<record_order, dir_exists, dir_listing, pdf_files, submitted, task,
                   finish_order, early, waiter_q, yielded, summaries,
                   synth_input, literature_review, paper_list, files_written,
                   error>>

\* One attempt of synthesize_reviews that raises: tenacity retries, or raises
\* RetryError, which main's except Exception logs.
SynthAttemptFails ==
    /\ pc = "synthesize"
    /\ synth_attempts' = synth_attempts + 1
    /\ IF StopAfterAttempt(synth_attempts + 1)
       THEN pc' = "FailedUnexpected" /\ error' = "RetryError"
       ELSE UNCHANGED <<pc, error>>
    /\ UNCHANGED notMain
    /\ UNCHANGED <<record_order, dir_exists, dir_listing, pdf_files, submitted, task,
                   finish_order, early, waiter_q, yielded, summaries,
                   synth_input, literature_review, paper_list, files_written>>

\* create_paper_list: one "- ..." line per summary, in the order of the list
\* (the citation; create_apa_citation raises on no PaperSummary, so the
\* placeholder line is never taken).
create_paper_list(ss) == [i \in 1..Len(ss) |-> [bullet |-> "citation", of |-> ss[i]]]

CreatePaperList ==
    /\ pc = "create_paper_list"
    /\ paper_list' = create_paper_list(summaries)
    /\ pc' = "write"
    /\ UNCHANGED notMain
    /\ UNCHANGED <<record_order, dir_exists, dir_listing, pdf_files, submitted, task,
                   finish_order, early, waiter_q, yielded, summaries,
                   synth_attempts, synth_input, literature_review, files_written,
                   error>>

\* The output file is opened and the review, "\n\n" and the paper list are
\* written to it.
WriteOutput ==
    /\ pc = "write"
    /\ files_written' = files_written + 1
    /\ pc' = "Completed"
    /\ UNCHANGED notMain
    /\ UNCHANGED <<record_order, dir_exists, dir_listing, pdf_files, submitted, task,
                   finish_order, early, waiter_q, yielded, summaries,
                   synth_attempts, synth_input, literature_review, paper_list,
                   error>>

\* open() or a write raises: no complete document is written (files_written
\* counts the documents written in full), main's except Exception logs it.
WriteOutputFails ==
    /\ pc = "write"
    /\ error' = "OSError"
    /\ pc' = "FailedUnexpected"
    /\ UNCHANGED notMain
    /\ UNCHANGED <<record_order, dir_exists, dir_listing, pdf_files, submitted, task,
                   finish_order, early, waiter_q, yielded, summaries,
                   synth_attempts, synth_input, literature_review, paper_list,
                   files_written>>

MainNext ==
    \/ FindPdfFolder
    \/ FindPdfFolderMissing
    \/ ListPdfFiles
    \/ Submit
    \/ \E t \in Futures : StartTask(t)
    \/ \E t \in Futures : ExtractText(t)
    \/ \E t \in Futures : ExtractTextFails(t)
    \/ \E t \in Futures : AnalyzePdf(t)
    \/ \E t \in Futures : AnalyzePdfFails(t)
    \/ AsCompletedStart
    \/ \E t \in Futures : CollectSummary(t)
    \/ \E t \in Futures : CollectFailure(t)
    \/ ExitPool
    \/ CheckSummaries
    \/ SynthAttempt
    \/ SynthAttemptFails
    \/ CreatePaperList
    \/ WriteOutput
    \/ WriteOutputFails

Init == MainInit(FALSE, MaxFiles) /\ RetryIdle /\ CleanIdle /\ CiteIdle

Next == MainNext

Spec == Init /\ [][Next]_vars

InitOrder == MainInit(TRUE, OrderFiles) /\ RetryIdle /\ CleanIdle /\ CiteIdle

SpecOrder == InitOrder /\ [][Next]_vars

\* ------------------------------------------------------------ main(): claims

Terminal == {"Completed", "FailedNoInput", "FailedNoOutput", "FailedUnexpected"}

\* The positions of main() after the with block.
AfterPool == {"check_summaries", "synthesize", "create_paper_list", "write",
              "Completed", "FailedNoOutput"}

Succeeded == {t \in Futures : task[t] = "ok"}
Failed == {t \in Futures : task[t] = "failed"}

\* The elements of the sequence s.
Range(s) == {s[i] : i \in 1..Len(s)}

\* The index of x in the sequence s (0 if absent).
Pos(s, x) == IF \E i \in 1..Len(s) : s[i] = x
             THEN CHOOSE i \in 1..Len(s) : s[i] = x ELSE 0

\* C1: a failed task never ends the run or touches another file's result: a
\* run that submitted tasks stops only with every future collected (or with
\* an error of the synthesis or of the write, after the pool); once the pool
\* has drained, summaries holds each succeeded task exactly once and no failed
\* one; a Completed run's paper list has one entry per summary.
C1_FailureIsolation ==
    /\ (pc \in AfterPool \/ (pc = "FailedUnexpected" /\ pdf_files # <<>>)) =>
          /\ yielded = Futures
          /\ Range(summaries) = Succeeded
          /\ Len(summaries) = Cardinality(Succeeded)
          /\ Succeeded \cup Failed = Futures
    /\ (pc = "FailedUnexpected" /\ pdf_files # <<>>) => error \in {"RetryError", "OSError"}
    /\ pc = "Completed" => Len(paper_list) = Len(summaries)

\* C1 witness: 3 valid PDFs and 1 corrupt one, run Completed with 3 entries.
C1_Witness ==
    /\ pc = "Completed"
    /\ Len(pdf_files) = 4
    /\ Cardinality(Failed) = 1
    /\ Len(summaries) = 3
    /\ Len(paper_list) = 3

\* The name ends in the four characters ".pdf".
HasPdfSuffix(f) ==
    /\ Len(f) >= 4
    /\ f[Len(f) - 3] = "." /\ f[Len(f) - 2] = "p"
    /\ f[Len(f) - 1] = "d" /\ f[Len(f)] = "f"

NoPdfInFolder == dir_exists /\ \A i \in 1..Len(dir_listing) : ~HasPdfSuffix(dir_listing[i])

\* C2: with an existing folder holding no name that ends in '.pdf', the run
\* goes from the lookup and the listing to FailedNoInput only, no task is
\* submitted or running, no synthesis attempt is made, no file is written.
C2_NoInput ==
    NoPdfInFolder =>
        /\ pc \in {"find_pdf_folder", "listdir", "FailedNoInput"}
        /\ submitted = 0
        /\ Futures = {}
        /\ synth_attempts = 0
        /\ files_written = 0

\* C2 witness: the run has ended at FailedNoInput on a folder that holds
\* entries, none of them a '.pdf'.
C2_Witness == pc = "FailedNoInput" /\ dir_listing # <<>> /\ NoPdfInFolder

\* C3: when the pool has drained with no success, the run is at the test of
\* the list or at FailedNoOutput, synthesize_reviews has not been attempted,
\* and no file is written; and synthesize_reviews is never called with an
\* empty list.
C3_NoOutput ==
    /\ ((pc \in AfterPool \cup {"FailedUnexpected"}) /\ pdf_files # <<>> /\ Succeeded = {}) =>
          /\ pc \in {"check_summaries", "FailedNoOutput"}
          /\ synth_attempts = 0
          /\ literature_review = "none"
          /\ files_written = 0
    /\ (pc = "synthesize" \/ synth_attempts > 0) => synth_input # <<>>

\* C3 witness: several files, all failed, the run at FailedNoOutput.
C3_Witness ==
    /\ pc = "FailedNoOutput"
    /\ Len(pdf_files) >= 2
    /\ Failed = Futures

\* C8: at most max_workers tasks run at once; from the synthesis on, no task
\* is running or queued, every future has finished and been collected, and
\* the synthesis got the whole list of successes.
C8_BoundedPoolThenSerial ==
    /\ Cardinality(Running) <= max_workers
    /\ (pc \in {"synthesize", "create_paper_list", "write", "Completed"}
        \/ synth_attempts > 0) =>
          /\ Running = {}
          /\ \A t \in Futures : task[t] \in {"ok", "failed"}
          /\ yielded = Futures
          /\ synth_input = summaries
          /\ Range(synth_input) = Succeeded

\* C8 witness: max_workers tasks running while another one waits in the queue.
C8_Witness ==
    /\ Cardinality(Running) = max_workers
    /\ \E t \in Futures : task[t] = "queued"

\* The paper list holds the entry of summaries[i] at i.
RenderedInCollectedOrder ==
    (pc \in {"write", "Completed"} \/ error = "OSError") =>
        /\ Len(paper_list) = Len(summaries)
        /\ \A i \in 1..Len(summaries) : paper_list[i].of = summaries[i]

\* C9 as stated: summaries are in the order in which their tasks finished, and
\* the paper list is in the order of summaries.
C9_CompletionOrder ==
    /\ \A i, j \in 1..Len(summaries) :
          i < j => Pos(finish_order, summaries[i]) < Pos(finish_order, summaries[j])
    /\ RenderedInCollectedOrder

\* The future finished before as_completed started.
FinishedEarly(t) == Pos(finish_order, t) < Pos(finish_order, 0)

\* C9 amended: summaries are in finishing order except among the tasks that
\* had finished before as_completed started, which come first in any order;
\* the paper list is in the order of summaries.
C9_CompletionOrderAfterStart ==
    /\ \A i, j \in 1..Len(summaries) :
          (i < j /\ ~(FinishedEarly(summaries[i]) /\ FinishedEarly(summaries[j])))
              => Pos(finish_order, summaries[i]) < Pos(finish_order, summaries[j])
    /\ RenderedInCollectedOrder

\* C9 witness: a Completed run in which the second file's task finished
\* before the first's, both after as_completed started, and was collected and
\* rendered first.
C9_Witness ==
    /\ pc = "Completed"
    /\ Len(summaries) >= 2
    /\ summaries[1] = 2 /\ summaries[2] = 1
    /\ ~FinishedEarly(2)
    /\ paper_list[1].of = 2

RetrySites == {"analyze_pdf", "synthesize_reviews"}

\* What makes an attempt raise: the completion call (connection, rate limit,
\* API status) and, in analyze_pdf only, PaperSummary.parse_raw.
FailureKinds(site) ==
    {"network", "rate_limit", "api_status"}
    \cup (IF site = "analyze_pdf" THEN {"parse"} ELSE {})

RetryInit ==
    /\ r_pc = "call"
    /\ r_site \in RetrySites
    /\ r_attempt = 1
    /\ r_outcomes = <<>>
    /\ r_result = "none"

\* The attempt returns: the invocation returns its value.
RetryAttemptReturns ==
    /\ r_pc = "call"
    /\ r_outcomes' = Append(r_outcomes, "ok")
    /\ r_result' = <<"value of attempt", r_attempt>>
    /\ r_pc' = "returned"
    /\ UNCHANGED <<r_site, r_attempt>>
    /\ UNCHANGED notRetry

\* The attempt raises: RetryError if the stop condition holds, else the wait.
RetryAttemptRaises(kind) ==
    /\ r_pc = "call"
    /\ r_outcomes' = Append(r_outcomes, kind)
    /\ IF StopAfterAttempt(r_attempt)
       THEN r_pc' = "raised" /\ r_result' = "RetryError"
       ELSE r_pc' = "sleep" /\ UNCHANGED r_result
    /\ UNCHANGED <<r_site, r_attempt>>
    /\ UNCHANGED notRetry

\* The wait (wait_random_exponential) is over: the next attempt starts.
RetryNextAttempt ==
    /\ r_pc = "sleep"
    /\ r_attempt' = r_attempt + 1
    /\ r_pc' = "call"
    /\ UNCHANGED <<r_site, r_outcomes, r_result>>
    /\ UNCHANGED notRetry

RetryNext ==
    \/ RetryAttemptReturns
    \/ \E kind \in FailureKinds(r_site) : RetryAttemptRaises(kind)
    \/ RetryNextAttempt

InitRetry == MainIdle /\ RetryInit /\ CleanIdle /\ CiteIdle

SpecRetry == InitRetry /\ [][RetryNext]_vars

\* C4: an invocation makes at most stop_after_attempt attempts; it goes on
\* only while every attempt so far failed and fewer than that many were made;
\* it returns exactly at its first successful attempt k, with that attempt's
\* value; it raises exactly after stop_after_attempt failed attempts.
C4_AtMostThreeAttempts ==
    LET n == Len(r_outcomes) IN
    /\ n <= 3 /\ r_attempt <= 3
    /\ r_pc = "call" => r_attempt = n + 1 /\ \A i \in 1..n : r_outcomes[i] # "ok"
    /\ r_pc = "sleep" => r_attempt = n /\ n < 3 /\ \A i \in 1..n : r_outcomes[i] # "ok"
    /\ r_pc = "returned" =>
          /\ r_outcomes[n] = "ok"
          /\ \A i \in 1..(n - 1) : r_outcomes[i] # "ok"
          /\ r_attempt = n
          /\ r_result = <<"value of attempt", n>>
    /\ r_pc = "raised" =>
          /\ n = 3
          /\ \A i \in 1..n : r_outcomes[i] # "ok"
          /\ r_result = "RetryError"

\* C4 witness: attempts 1 and 2 failed, attempt 3 succeeded, the invocation
\* returned.
C4_Witness ==
    /\ r_pc = "returned"
    /\ Len(r_outcomes) = 3
    /\ r_outcomes[1] # "ok" /\ r_outcomes[2] # "ok" /\ r_outcomes[3] = "ok"
    /\ r_result = <<"value of attempt", 3>>

\* -------------------------------------------------------------- clean_text

\* The longest input text (in code points).
MaxTextLen == 4

\* The code points input texts are made of: tab, newline, space, "A",
\* no-break space, e-acute, the euro sign.
CodePoints == {9, 10, 32, 65, 160, 233, 8364}

RECURSIVE SeqsUpTo(_, _)
\* The sequences over S of length at most n.
SeqsUpTo(S, n) ==
    IF n = 0 THEN {<<>>}
    ELSE LET shorter == SeqsUpTo(S, n - 1) IN
         shorter \cup {Append(q, x) : q \in shorter, x \in S}

\* unicodedata.normalize('NFKD', ch): the compatibility decomposition of one
\* code point (no-break space: space; e-acute: "e" and the combining acute;
\* the others have none).
Nfkd(ch) ==
    CASE ch = 160 -> <<32>>
      [] ch = 233 -> <<101, 769>>
      [] OTHER -> <<ch>>

RECURSIVE NormalizeNFKD(_)
NormalizeNFKD(text) ==
    IF text = <<>> THEN <<>> ELSE Nfkd(Head(text)) \o NormalizeNFKD(Tail(text))

\* .encode('ASCII', 'ignore').decode('ASCII'): code points above 127 dropped.
AsciiIgnore(text) == SelectSeq(text, LAMBDA ch : ch < 128)

\* ''.join(char for char in text if ord(char) >= 32)
RemoveNonPrintable(text) == SelectSeq(text, LAMBDA ch : ch >= 32)

\* What re's \s and str.strip() take for whitespace, up to U+00A0.
IsWhitespace(ch) == ch \in {9, 10, 11, 12, 13, 28, 29, 30, 31, 32, 133, 160}

\* Mutant of CollapseWhitespace: re.sub(r'\s', ' ', text), each whitespace
\* character replaced on its own.
ReplaceEachWhitespace(text) ==
    [i \in 1..Len(text) |-> IF IsWhitespace(text[i]) THEN 32 ELSE text[i]]

RECURSIVE CollapseFrom(_, _)
\* The text from index k on, each maximal run of whitespace replaced by one
\* space.
CollapseFrom(text, k) ==
    IF k > Len(text) THEN <<>>
    ELSE IF IsWhitespace(text[k])
         THEN (IF k > 1 /\ IsWhitespace(text[k - 1]) THEN <<>> ELSE <<32>>)
              \o CollapseFrom(text, k + 1)
         ELSE <<text[k]>> \o CollapseFrom(text, k + 1)

\* re.sub(r'\s+', ' ', text)
CollapseWhitespace(text) == CollapseFrom(text, 1)

RECURSIVE LStrip(_)
LStrip(text) ==
    IF text # <<>> /\ IsWhitespace(Head(text)) THEN LStrip(Tail(text)) ELSE text

RECURSIVE RStrip(_)
RStrip(text) ==
    IF text # <<>> /\ IsWhitespace(text[Len(text)])
    THEN RStrip(SubSeq(text, 1, Len(text) - 1)) ELSE text

\* text.strip()
Strip(text) == RStrip(LStrip(text))

clean_text(text) ==
    Strip(CollapseWhitespace(RemoveNonPrintable(AsciiIgnore(NormalizeNFKD(text)))))

CleanInit ==
    /\ c_pc = "call"
    /\ c_text \in SeqsUpTo(CodePoints, MaxTextLen)
    /\ c_out = <<>>

\* clean_text(text) returns.
CleanText ==
    /\ c_pc = "call"
    /\ c_out' = clean_text(c_text)
    /\ c_pc' = "done"
    /\ UNCHANGED c_text
    /\ UNCHANGED notClean

CleanNext == CleanText

InitClean == MainIdle /\ RetryIdle /\ CleanInit /\ CiteIdle

SpecClean == InitClean /\ [][CleanNext]_vars

\* C5: the output of clean_text has no code point below 32, no two adjacent
\* whitespace characters, and no whitespace at either end.
C5_CleanOutput ==
    c_pc = "done" =>
        /\ \A i \in 1..Len(c_out) : c_out[i] >= 32
        /\ \A i \in 1..(Len(c_out) - 1) :
              ~(IsWhitespace(c_out[i]) /\ IsWhitespace(c_out[i + 1]))
        /\ c_out # <<>> => ~IsWhitespace(c_out[1]) /\ ~IsWhitespace(c_out[Len(c_out)])

\* C5 witness: "A", no-break space, space, "A" cleaned to "A A".
C5_Witness ==
    /\ c_pc = "done"
    /\ c_text = <<65, 160, 32, 65>>
    /\ c_out = <<65, 32, 65>>

\* ----------------------------------------------------- create_apa_citation

\* The most tokens in a generated author name.
MaxTokens == 3

LowerAlpha == <<"a", "b", "c", "d", "e", "f", "g", "h", "i", "j", "k", "l", "m", "n", "o", "p", "q", "r", "s", "t", "u", "v", "w", "x", "y", "z">>
UpperAlpha == <<"A", "B", "C", "D", "E", "F", "G", "H", "I", "J", "K", "L", "M", "N", "O", "P", "Q", "R", "S", "T", "U", "V", "W", "X", "Y", "Z">>

\* ch.lower() and ch.upper() of one character.
Lower(ch) ==
    IF \E i \in 1..26 : UpperAlpha[i] = ch
    THEN LowerAlpha[CHOOSE i \in 1..26 : UpperAlpha[i] = ch] ELSE ch
Upper(ch) ==
    IF \E i \in 1..26 : LowerAlpha[i] = ch
    THEN UpperAlpha[CHOOSE i \in 1..26 : LowerAlpha[i] = ch] ELSE ch

\* s.lower()
LowerStr(str) == [i \in 1..Len(str) |-> Lower(str[i])]

\* s.capitalize(): the first character upper case, the rest lower case.
Capitalize(str) ==
    IF str = <<>> THEN <<>> ELSE <<Upper(str[1])>> \o LowerStr(Tail(str))

IsSpaceChar(ch) == ch \in {" ", "\t", "\n"}

RECURSIVE SplitFrom(_, _, _)
SplitFrom(str, k, cur) ==
    IF k > Len(str) THEN (IF cur = <<>> THEN <<>> ELSE <<cur>>)
    ELSE IF IsSpaceChar(str[k])
         THEN (IF cur = <<>> THEN <<>> ELSE <<cur>>) \o SplitFrom(str, k + 1, <<>>)
         ELSE SplitFrom(str, k + 1, Append(cur, str[k]))

\* s.split(): the maximal runs of non-whitespace characters.
Split(str) == SplitFrom(str, 1, <<>>)

RECURSIVE Str(_)
\* str(n) of an integer n >= 0.
Str(n) ==
    LET digit == <<"0", "1", "2", "3", "4", "5", "6", "7", "8", "9">>[(n % 10) + 1] IN
    IF n < 10 THEN <<digit>> ELSE Str(n \div 10) \o <<digit>>

\* ['van', 'von', 'de', 'du']
Particles == {<<"v", "a", "n">>, <<"v", "o", "n">>, <<"d", "e">>, <<"d", "u">>}

\* ['a', 'an', 'the', 'and', 'but', 'or', 'for', 'nor', 'on', 'at', 'to',
\*  'from', 'by', 'in', 'of']
StopWords ==
    {<<"a">>,
     <<"a", "n">>,
     <<"t", "h", "e">>,
     <<"a", "n", "d">>,
     <<"b", "u", "t">>,
     <<"o", "r">>,
     <<"f", "o", "r">>,
     <<"n", "o", "r">>,
     <<"o", "n">>,
     <<"a", "t">>,
     <<"t", "o">>,
     <<"f", "r", "o", "m">>,
     <<"b", "y">>,
     <<"i", "n">>,
     <<"o", "f">>}

\* Mutant of LastName: the last token alone, whatever precedes it.
LastTokenOnly(parts) == parts[Len(parts)]

\* last_name, for a name of more than one part.
LastName(parts) ==
    LET n == Len(parts) IN
    IF LowerStr(parts[n - 1]) \in Particles
    THEN parts[n - 1] \o <<" ">> \o parts[n]
    ELSE parts[n]

\* initials, for a name of more than one part.
Initials(parts) ==
    LET leading == SubSeq(parts, 1, Len(parts) - 1)
        kept == SelectSeq(leading, LAMBDA name : LowerStr(name) \notin Particles)
    IN JoinWith(<<".", " ">>, [i \in 1..Len(kept) |-> <<Upper(kept[i][1]), ".">>])

\* One pass of the loop over summary.authors.
FormatAuthor(author) ==
    LET parts == Split(author) IN
    IF Len(parts) > 1
    THEN [last_name |-> LastName(parts), initials |-> Initials(parts),
          formatted |-> LastName(parts) \o <<",", " ">> \o Initials(parts)]
    ELSE [last_name |-> <<>>, initials |-> <<>>, formatted |-> author]

\* authors_string
JoinAuthors(formatted_authors) ==
    LET n == Len(formatted_authors) IN
    IF n = 1 THEN formatted_authors[1]
    ELSE IF n = 2
    THEN formatted_authors[1] \o <<" ", "&", " ">> \o formatted_authors[2]
    ELSE IF n > 2
    THEN JoinWith(<<",", " ">>, SubSeq(formatted_authors, 1, n - 1))
         \o <<",", " ", "&", " ">> \o formatted_authors[n]
    ELSE <<"U", "n", "k", "n", "o", "w", "n">>

\* title: every word capitalized but the stop words after the first word,
\* which are lower-cased; one trailing period removed.
FormatTitle(title) ==
    LET title_words == Split(title)
        cased == [i \in 1..Len(title_words) |->
                    IF i = 1 \/ LowerStr(title_words[i]) \notin StopWords
                    THEN Capitalize(title_words[i])
                    ELSE LowerStr(title_words[i])]
        joined == JoinWith(<<" ">>, cased)
    IN IF EndsWith(joined, <<".">>) THEN SubSeq(joined, 1, Len(joined) - 1)
       ELSE joined

create_apa_citation(summary) ==
    IF summary.authors = <<>>
    THEN <<"U", "n", "k", "n", "o", "w", "n", ".">> \o <<" ", "(">> \o Str(summary.year) \o <<")", ".", " ">>
         \o summary.title \o <<".">>
    ELSE JoinAuthors([i \in 1..Len(summary.authors) |->
                         FormatAuthor(summary.authors[i]).formatted])
         \o <<" ", "(">> \o Str(summary.year) \o <<")", ".", " ">>
         \o FormatTitle(summary.title) \o <<".">>

\* The tokens generated author names are made of.
AuthorTokens == {<<"L", "u", "d", "w", "i", "g">>,
                 <<"v", "a", "n">>,
                 <<"V", "a", "n">>,
                 <<"B", "e", "e", "t", "h", "o", "v", "e", "n">>,
                 <<"d", "e">>}

\* The author names of 1 to MaxTokens tokens, joined by single spaces.
AuthorNames ==
    {JoinWith(<<" ">>, toks) : toks \in SeqsUpTo(AuthorTokens, MaxTokens) \ {<<>>}}

\* The author lists: none, one generated name, and two lists of several.
AuthorLists ==
    {<<>>} \cup {<<name>> : name \in AuthorNames}
    \cup {<<<<"J", "a", "n", "e", " ", "S", "m", "i", "t", "h">>, <<"J", "o", "h", "n", " ", "D", "o", "e">>>>, <<<<"A", " ", "B">>, <<"C", " ", "D">>, <<"E", " ", "F">>>>}

TheRiseOfTheMachines == 
    <<"t", "h", "e", " ", "r", "i", "s", "e", " ", "o", "f", " ", "t", "h", "e", " ", "m", "a", "c", "h", "i", "n", "e", "s">>

Titles == {TheRiseOfTheMachines, 
           <<"D", "e", "e", "p", " ", "l", "e", "a", "r", "n", "i", "n", "g", ".">>, 
           <<"A", " ", "s", "t", "u", "d", "y", " ", "O", "f", " ", "I", "B", "M">>}

CiteInit ==
    /\ a_pc = "call"
    /\ a_summary \in [title : Titles, authors : AuthorLists, year : {1808}]
    /\ a_authors = <<>>
    /\ a_title = <<>>
    /\ a_citation = <<>>

\* create_apa_citation(summary) returns; a_authors and a_title are its locals
\* (not set on the early return for no authors).
CreateApaCitation ==
    /\ a_pc = "call"
    /\ a_authors' = [i \in 1..Len(a_summary.authors) |-> FormatAuthor(a_summary.authors[i])]
    /\ a_title' = IF a_summary.authors = <<>> THEN <<>> ELSE FormatTitle(a_summary.title)
    /\ a_citation' = create_apa_citation(a_summary)
    /\ a_pc' = "done"
    /\ UNCHANGED a_summary
    /\ UNCHANGED notCite

CiteNext == CreateApaCitation

InitCite == MainIdle /\ RetryIdle /\ CleanIdle /\ CiteInit

SpecCite == InitCite /\ [][CiteNext]_vars

\* C6: the title "the rise of the machines" of a summary with authors (the
\* title is cased only past the early return for no authors) is rendered in
\* the citation as "The rise of the machines".
C6_TitleSentenceCase ==
    (a_pc = "done" /\ a_summary.title = TheRiseOfTheMachines
        /\ a_summary.authors # <<>>) =>
        EndsWith(a_citation, 
            <<")", ".", " ", "T", "h", "e", " ", "r", "i", "s", "e", " ", "o", "f", " ", "t", "h", "e", " ", "m", "a", "c", "h", "i", "n", "e", "s", ".">>)

\* The letters of an initials string: what is neither "." nor a space.
InitialLetters(initials) == SelectSeq(initials, LAMBDA ch : ch \notin {".", " "})

\* The first letters, upper-cased, of the tokens before the last one that
\* IsParticle does not hold of.
LeadingLetters(parts, IsParticle(_)) ==
    LET kept == SelectSeq(SubSeq(parts, 1, Len(parts) - 1), LAMBDA tok : ~IsParticle(tok))
    IN [i \in 1..Len(kept) |-> Upper(kept[i][1])]

\* For every author of two or more tokens: the surname is the last two tokens
\* exactly when IsParticle holds of the second-to-last, else the last token;
\* the initials are those of the leading tokens that are no particles; and
\* the name is rendered "<surname>, <initials>".
SurnameRule(IsParticle(_)) ==
    \A i \in 1..Len(a_summary.authors) :
        LET parts == Split(a_summary.authors[i])
            n == Len(parts)
        IN n >= 2 =>
            /\ a_authors[i].last_name =
                  (IF IsParticle(parts[n - 1])
                   THEN parts[n - 1] \o <<" ">> \o parts[n] ELSE parts[n])
            /\ InitialLetters(a_authors[i].initials) = LeadingLetters(parts, IsParticle)
            /\ a_authors[i].formatted =
                  a_authors[i].last_name \o <<",", " ">> \o a_authors[i].initials

\* authors ["Ludwig van Beethoven"] is rendered
\* "van Beethoven, L. (<year>). <title>."
BeethovenExample ==
    a_summary.authors = <<<<"L", "u", "d", "w", "i", "g", " ", "v", "a", "n", " ", "B", "e", "e", "t", "h", "o", "v", "e", "n">>>> =>
        a_citation = <<"v", "a", "n", " ", "B", "e", "e", "t", "h", "o", "v", "e", "n", ",", " ", "L", ".">> \o <<" ", "(">> \o Str(a_summary.year)
                     \o <<")", ".", " ">> \o a_title \o <<".">>

IsLowercaseParticle(tok) == tok \in {<<"v", "a", "n">>, <<"v", "o", "n">>, <<"d", "e">>, <<"d", "u">>}
IsParticleAnyCase(tok) == LowerStr(tok) \in {<<"v", "a", "n">>, <<"v", "o", "n">>, <<"d", "e">>, <<"d", "u">>}

\* C7 as stated: the particles are the lower-case tokens van, von, de, du.
C7_SurnameParticle ==
    a_pc = "done" => SurnameRule(IsLowercaseParticle) /\ BeethovenExample

\* C7 amended: the particles are the tokens that are van, von, de or du once
\* lower-cased ("Van", "DE", ... count too), for the surname and for the
\* initials alike.
C7_SurnameParticleAnyCase ==
    a_pc = "done" => SurnameRule(IsParticleAnyCase) /\ BeethovenExample

\* C7 witness: the citation of ["Ludwig van Beethoven"] has been rendered,
\* with surname "van Beethoven" and initials "L.".
C7_Witness ==
    /\ a_pc = "done"
    /\ a_summary.authors = <<<<"L", "u", "d", "w", "i", "g", " ", "v", "a", "n", " ", "B", "e", "e", "t", "h", "o", "v", "e", "n">>>>
    /\ a_authors[1].last_name = <<"v", "a", "n", " ", "B", "e", "e", "t", "h", "o", "v", "e", "n">>
    /\ a_authors[1].initials = <<"L", ".">>

====
